---- MODULE Spec2Model ----
(***************************************************************************)
(* Memory monitor for the ATmega328P (src/src/memory_monitor.cpp): the     *)
(* allocation ledger, the sentinel fill-and-scan stack tracker and the     *)
(* collision check, together with the stack and the heap end they observe. *)
(*                                                                         *)
(* Addresses are 16-bit integers.  The stack is full-descending in the AVR *)
(* way: SP names the next free byte, a push stores at SP and decrements.   *)
(***************************************************************************)
EXTENDS Integers, Sequences, FiniteSets, TLC

----------------------------------------------------------------------------
(* Program constants                                                       *)

\* Capacity of s_alloc_table as the program is built.
ProgramSlots == 32

STACK_SENTINEL == 170

COLLISION_SAFETY_MARGIN == 128

RAMEND == 2303

\* Address of the linker symbol __heap_start: the first byte above .bss.
heap_start == 2167

NULL == 0

\* uint16_t arithmetic is modulo 2^16.
U16 == 65536

----------------------------------------------------------------------------
(* Bounds of the model                                                     *)

\* Capacity of s_alloc_table in the specifications that fill the table to
\* its last slot: the same loops over fewer slots.
ModelSlots == 3

\* Deepest nesting of call frames on the stack.
MaxDepth == 2

\* The same where the frames are those of the worked example of the scan.
MaxScanDepth == 3

\* Most bytes the allocator extends the heap by.
MaxHeapGrowth == 1

\* track_alloc is not called once alloc_count has reached this value.
MaxAllocs == 4

\* The same for the table of 32 slots, which is never filled.
MaxFragAllocs == 10

\* The values up to this one are all printed.
MaxSmallValue == 110

\* Sizes of the call frames pushed on the stack.
FrameSizes == {8, 128}

\* Byte values a frame is filled with: one ordinary value and the sentinel.
StackBytes == {31, STACK_SENTINEL}

\* Contents of the SRAM above .bss at power-on (undefined by the hardware).
PowerOnBytes == {0, STACK_SENTINEL}

\* Arguments of track_alloc and track_free.
Ptrs == {NULL, 520, 536}

Sizes == {16, 32768}

----------------------------------------------------------------------------
(* State                                                                   *)

VARIABLES
    s_alloc_table,          \* [1..MAX_HEAP_ALLOCATIONS -> AllocationEntry]
    init_stack_pointer,     \* s_mem_state fields
    max_stack_usage,
    heap_used,
    heap_total_allocated,
    heap_total_freed,
    alloc_count,
    free_count,
    collision_warning,
    SP,                     \* the stack pointer register pair SPH:SPL
    brkval,                 \* __brkval, NULL until the allocator has run
    mem,                    \* SRAM bytes from __heap_start to RAMEND
    frames,                 \* sizes of the call frames now on the stack
    inited,                 \* mem_monitor_init has been called
    stack_low,              \* lowest address the stack has written since init
    last_call,              \* the call made by the last step, and its result
    SREG,                   \* the status register: its I bit, 128 or 0
    in_isr,                 \* 1 while an interrupt handler runs
    gsp,                    \* mem_monitor_get_stack_pointer in progress
    allocated,              \* blocks the real allocator has handed out
    wrap,                   \* __wrap_malloc or __wrap_free in progress
    track,                  \* main-line track_alloc in progress
    scan,                   \* the scan of mem_monitor_update in progress
    uart                    \* uart_print_u16 in progress and the transmitter

ledger == <<s_alloc_table, heap_used, heap_total_allocated, heap_total_freed,
            alloc_count, free_count>>

tracker == <<init_stack_pointer, max_stack_usage, collision_warning>>

machine == <<SP, brkval, mem, frames, stack_low>>

\* What the calls of the monitor's API leave alone when they run from start
\* to end without an interrupt: the interrupt state and the frames of the
\* calls that are followed instruction by instruction.
context == <<SREG, in_isr, gsp, allocated, wrap, track, scan, uart>>

vars == <<ledger, tracker, machine, inited, last_call, context>>

Addr == heap_start..RAMEND

\* The table is declared s_alloc_table[MAX_HEAP_ALLOCATIONS]: the capacity
\* is the number of slots the table has had since entry to main.
MAX_HEAP_ALLOCATIONS == Len(s_alloc_table)

Slots == 1..MAX_HEAP_ALLOCATIONS

EmptyEntry == [ptr |-> NULL, size |-> 0, active |-> 0]

Call(op, ptr, size, ret) == [op |-> op, ptr |-> ptr, size |-> size, ret |-> ret]

NoCall == Call("none", NULL, 0, 0)

\* No call of the kind is in progress.
GspIdle == [pc |-> "idle", entry |-> 0, sreg |-> 0, sp |-> 0]

WrapIdle == [pc |-> "idle", size |-> 0, ptr |-> NULL, real_calls |-> 0,
             real_arg |-> 0, real_ret |-> NULL]

TrackIdle == [pc |-> "idle", ptr |-> NULL, size |-> 0, i |-> 0]

ScanIdle == [pc |-> "idle", scan_ptr |-> 0]

\* No print in progress, nothing sent, the transmit buffer empty.
UartIdle == [pc |-> "idle", arg |-> 0, value |-> 0, text |-> <<>>,
             out |-> <<>>, udre |-> 1]

\* Reset leaves the I bit clear: interrupts are off until main enables them.
ContextAtEntry ==
    /\ SREG = 0
    /\ in_isr = 0
    /\ gsp = GspIdle
    /\ allocated = {}
    /\ wrap = WrapIdle
    /\ track = TrackIdle
    /\ scan = ScanIdle
    /\ uart = UartIdle

----------------------------------------------------------------------------
(* Memory map accessors                                                    *)

mem_monitor_get_stack_pointer == SP

HeapEnd == IF brkval # NULL THEN brkval ELSE heap_start

----------------------------------------------------------------------------
(* Initial state: entry to main.  .bss is zeroed (the table and            *)
(* s_mem_state), __brkval is null, main's frame of n bytes is on the stack *)
(* and the rest of the SRAM holds whatever it held at power-on.            *)

EntryState(slots, n, b, g) ==
    /\ s_alloc_table = [i \in 1..slots |-> EmptyEntry]
    /\ init_stack_pointer = 0
    /\ max_stack_usage = 0
    /\ heap_used = 0
    /\ heap_total_allocated = 0
    /\ heap_total_freed = 0
    /\ alloc_count = 0
    /\ free_count = 0
    /\ collision_warning = 0
    /\ SP = RAMEND - n
    /\ brkval = NULL
    /\ mem = [a \in Addr |-> IF a > RAMEND - n THEN b ELSE g]
    /\ frames = <<n>>
    /\ inited = FALSE
    /\ stack_low = RAMEND - n + 1
    /\ last_call = NoCall
    /\ ContextAtEntry

MainEntry(n, b, g) == EntryState(ModelSlots, n, b, g)

Init == \E n \in FrameSizes, b \in StackBytes, g \in PowerOnBytes :
            MainEntry(n, b, g)

----------------------------------------------------------------------------
(* The machine around the monitor: the call stack and the allocator's     *)
(* heap end.                                                               *)

\* A call pushes a frame of n bytes, each holding b: the bytes at
\* SP-n+1 .. SP are written and SP drops by n.
stack_push(n, b) ==
    /\ SP - n >= heap_start
    /\ mem' = [a \in Addr |-> IF SP - n < a /\ a <= SP THEN b ELSE mem[a]]
    /\ SP' = SP - n
    /\ frames' = Append(frames, n)
    /\ stack_low' = IF inited /\ SP - n + 1 < stack_low THEN SP - n + 1
                    ELSE stack_low
    /\ brkval' = brkval
    /\ last_call' = NoCall
    /\ UNCHANGED <<ledger, tracker, inited>>
    /\ UNCHANGED context

\* The innermost call returns (main never does): SP rises by its frame, memory keeps the bytes.
stack_pop ==
    /\ Len(frames) > 1
    /\ SP' = SP + frames[Len(frames)]
    /\ frames' = SubSeq(frames, 1, Len(frames) - 1)
    /\ last_call' = NoCall
    /\ UNCHANGED <<ledger, tracker, inited, brkval, mem, stack_low>>
    /\ UNCHANGED context

\* The allocator extends the heap: __brkval moves up by n bytes, never past
\* the stack pointer.
heap_grow(n) ==
    /\ HeapEnd + n <= heap_start + MaxHeapGrowth
    /\ HeapEnd + n <= SP
    /\ brkval' = HeapEnd + n
    /\ last_call' = NoCall
    /\ UNCHANGED <<ledger, tracker, inited, SP, mem, frames, stack_low>>
    /\ UNCHANGED context

----------------------------------------------------------------------------
(* mem_monitor_init                                                        *)

\* Faulty variant: the fill runs through the byte at the stack pointer.
SentinelFill_ThroughSP(m, heap_end, stack_ptr) ==
    [a \in Addr |-> IF heap_end <= a /\ a <= stack_ptr THEN STACK_SENTINEL
                    ELSE m[a]]

SentinelFill(m, heap_end, stack_ptr) ==
    [a \in Addr |-> IF heap_end <= a /\ a < stack_ptr THEN STACK_SENTINEL
                    ELSE m[a]]

\* Faulty variant: the allocation table is not cleared.
mem_monitor_init_KeepTable ==
    /\ max_stack_usage' = 0
    /\ heap_used' = 0
    /\ heap_total_allocated' = 0
    /\ heap_total_freed' = 0
    /\ alloc_count' = 0
    /\ free_count' = 0
    /\ collision_warning' = 0
    /\ init_stack_pointer' = mem_monitor_get_stack_pointer
    /\ mem' = SentinelFill(mem, HeapEnd, mem_monitor_get_stack_pointer)
    /\ inited' = TRUE
    /\ stack_low' = SP + 1
    /\ last_call' = Call("init", NULL, 0, 0)
    /\ UNCHANGED <<s_alloc_table, SP, brkval, frames>>
    /\ UNCHANGED context

mem_monitor_init ==
    /\ s_alloc_table' = [i \in Slots |-> EmptyEntry]
    /\ max_stack_usage' = 0
    /\ heap_used' = 0
    /\ heap_total_allocated' = 0
    /\ heap_total_freed' = 0
    /\ alloc_count' = 0
    /\ free_count' = 0
    /\ collision_warning' = 0
    /\ init_stack_pointer' = mem_monitor_get_stack_pointer
    /\ mem' = SentinelFill(mem, HeapEnd, mem_monitor_get_stack_pointer)
    /\ inited' = TRUE
    /\ stack_low' = SP + 1
    /\ last_call' = Call("init", NULL, 0, 0)
    /\ UNCHANGED <<SP, brkval, frames>>
    /\ UNCHANGED context

----------------------------------------------------------------------------
(* Heap tracking                                                           *)

\* The slot loops of track_alloc and track_free, lowest index first; 0 when
\* the loop runs off the end of the table.
RECURSIVE FindFreeSlot(_, _)
FindFreeSlot(tbl, i) ==
    IF i > MAX_HEAP_ALLOCATIONS THEN 0
    ELSE IF tbl[i].active = 0 THEN i
    ELSE FindFreeSlot(tbl, i + 1)

\* Faulty variant of the loop of track_free: the active flag is not tested,
\* so the record of a block already freed matches again.
RECURSIVE FindActiveSlot_AnyRecord(_, _, _)
FindActiveSlot_AnyRecord(tbl, ptr, i) ==
    IF i > MAX_HEAP_ALLOCATIONS THEN 0
    ELSE IF tbl[i].ptr = ptr THEN i
    ELSE FindActiveSlot_AnyRecord(tbl, ptr, i + 1)

\* Faulty variant of the loop of track_free: the highest matching slot, not
\* the lowest.
RECURSIVE FindActiveSlot_Last(_, _, _)
FindActiveSlot_Last(tbl, ptr, i) ==
    IF i > MAX_HEAP_ALLOCATIONS THEN 0
    ELSE LET later == FindActiveSlot_Last(tbl, ptr, i + 1) IN
         IF later # 0 THEN later
         ELSE IF tbl[i].active # 0 /\ tbl[i].ptr = ptr THEN i
         ELSE 0

RECURSIVE FindActiveSlot(_, _, _)
FindActiveSlot(tbl, ptr, i) ==
    IF i > MAX_HEAP_ALLOCATIONS THEN 0
    ELSE IF tbl[i].active # 0 /\ tbl[i].ptr = ptr THEN i
    ELSE FindActiveSlot(tbl, ptr, i + 1)

\* How many slots each loop examines before it returns.
RECURSIVE FreeSlotComparisons(_, _)
FreeSlotComparisons(tbl, i) ==
    IF i > MAX_HEAP_ALLOCATIONS THEN 0
    ELSE IF tbl[i].active = 0 THEN 1
    ELSE 1 + FreeSlotComparisons(tbl, i + 1)

RECURSIVE ActiveSlotComparisons(_, _, _)
ActiveSlotComparisons(tbl, ptr, i) ==
    IF i > MAX_HEAP_ALLOCATIONS THEN 0
    ELSE IF tbl[i].active # 0 /\ tbl[i].ptr = ptr THEN 1
    ELSE 1 + ActiveSlotComparisons(tbl, ptr, i + 1)

\* Some active slot holds ptr.
Tracked(ptr) == \E i \in Slots : s_alloc_table[i].active # 0
                                 /\ s_alloc_table[i].ptr = ptr

\* Faulty variants of track_alloc, each a slip the properties below must
\* catch.
\* The cumulative byte counter is not updated.
TrackAllocEffect_NoTotal(ptr, size) ==
    LET i == FindFreeSlot(s_alloc_table, 1) IN
    IF ptr = NULL \/ i = 0
    THEN UNCHANGED ledger
    ELSE /\ s_alloc_table' = [s_alloc_table EXCEPT
                                ![i] = [ptr |-> ptr, size |-> size, active |-> 1]]
         /\ heap_used' = (heap_used + size) % U16
         /\ alloc_count' = (alloc_count + 1) % U16
         /\ UNCHANGED <<heap_total_allocated, heap_total_freed, free_count>>

\* A full table overwrites its last slot instead of dropping the event.
TrackAllocEffect_Overwrite(ptr, size) ==
    LET f == FindFreeSlot(s_alloc_table, 1)
        i == IF f = 0 THEN MAX_HEAP_ALLOCATIONS ELSE f
    IN
    IF ptr = NULL
    THEN UNCHANGED ledger
    ELSE /\ s_alloc_table' = [s_alloc_table EXCEPT
                                ![i] = [ptr |-> ptr, size |-> size, active |-> 1]]
         /\ heap_used' = (heap_used + size) % U16
         /\ heap_total_allocated' = (heap_total_allocated + size) % U16
         /\ alloc_count' = (alloc_count + 1) % U16
         /\ UNCHANGED <<heap_total_freed, free_count>>

\* The null check is missing.
TrackAllocEffect_NoNullCheck(ptr, size) ==
    LET i == FindFreeSlot(s_alloc_table, 1) IN
    IF i = 0
    THEN UNCHANGED ledger
    ELSE /\ s_alloc_table' = [s_alloc_table EXCEPT
                                ![i] = [ptr |-> ptr, size |-> size, active |-> 1]]
         /\ heap_used' = (heap_used + size) % U16
         /\ heap_total_allocated' = (heap_total_allocated + size) % U16
         /\ alloc_count' = (alloc_count + 1) % U16
         /\ UNCHANGED <<heap_total_freed, free_count>>

\* With the table full the record is written one past its last slot.
TrackAllocEffect_Append(ptr, size) ==
    LET i == FindFreeSlot(s_alloc_table, 1)
        entry == [ptr |-> ptr, size |-> size, active |-> 1] IN
    IF ptr = NULL
    THEN UNCHANGED ledger
    ELSE /\ s_alloc_table' = IF i = 0 THEN Append(s_alloc_table, entry)
                             ELSE [s_alloc_table EXCEPT ![i] = entry]
         /\ heap_used' = (heap_used + size) % U16
         /\ heap_total_allocated' = (heap_total_allocated + size) % U16
         /\ alloc_count' = (alloc_count + 1) % U16
         /\ UNCHANGED <<heap_total_freed, free_count>>

TrackAllocEffect(ptr, size) ==
    LET i == FindFreeSlot(s_alloc_table, 1) IN
    IF ptr = NULL \/ i = 0
    THEN UNCHANGED ledger
    ELSE /\ s_alloc_table' = [s_alloc_table EXCEPT
                                ![i] = [ptr |-> ptr, size |-> size, active |-> 1]]
         /\ heap_used' = (heap_used + size) % U16
         /\ heap_total_allocated' = (heap_total_allocated + size) % U16
         /\ alloc_count' = (alloc_count + 1) % U16
         /\ UNCHANGED <<heap_total_freed, free_count>>

mem_monitor_track_alloc(ptr, size) ==
    /\ inited
    /\ TrackAllocEffect(ptr, size)
    /\ last_call' = Call("track_alloc", ptr, size, 0)
    /\ UNCHANGED <<tracker, machine, inited>>
    /\ UNCHANGED context

\* Faulty variants of track_free.
\* The bytes of the freed block stay counted in heap_used.
TrackFreeEffect_NoUsed(ptr) ==
    LET i == FindActiveSlot(s_alloc_table, ptr, 1) IN
    IF ptr = NULL \/ i = 0
    THEN UNCHANGED ledger
    ELSE /\ heap_total_freed' = (heap_total_freed + s_alloc_table[i].size) % U16
         /\ free_count' = (free_count + 1) % U16
         /\ s_alloc_table' = [s_alloc_table EXCEPT ![i].active = 0]
         /\ UNCHANGED <<heap_used, heap_total_allocated, alloc_count>>

\* free_count is incremented before the table is searched.
TrackFreeEffect_CountFirst(ptr) ==
    LET i == FindActiveSlot(s_alloc_table, ptr, 1) IN
    IF ptr = NULL
    THEN UNCHANGED ledger
    ELSE IF i = 0
    THEN /\ free_count' = (free_count + 1) % U16
         /\ UNCHANGED <<s_alloc_table, heap_used, heap_total_allocated,
                        heap_total_freed, alloc_count>>
    ELSE /\ heap_used' = (heap_used - s_alloc_table[i].size) % U16
         /\ heap_total_freed' = (heap_total_freed + s_alloc_table[i].size) % U16
         /\ free_count' = (free_count + 1) % U16
         /\ s_alloc_table' = [s_alloc_table EXCEPT ![i].active = 0]
         /\ UNCHANGED <<heap_total_allocated, alloc_count>>

\* The counters are updated and the slot is left active.
TrackFreeEffect_KeepActive(ptr) ==
    LET i == FindActiveSlot(s_alloc_table, ptr, 1) IN
    IF ptr = NULL \/ i = 0
    THEN UNCHANGED ledger
    ELSE /\ heap_used' = (heap_used - s_alloc_table[i].size) % U16
         /\ heap_total_freed' = (heap_total_freed + s_alloc_table[i].size) % U16
         /\ free_count' = (free_count + 1) % U16
         /\ UNCHANGED <<s_alloc_table, heap_total_allocated, alloc_count>>

\* heap_used is clamped at 0 instead of being left to wrap.
TrackFreeEffect_Saturating(ptr) ==
    LET i == FindActiveSlot(s_alloc_table, ptr, 1) IN
    IF ptr = NULL \/ i = 0
    THEN UNCHANGED ledger
    ELSE /\ heap_used' = IF s_alloc_table[i].size > heap_used THEN 0
                         ELSE heap_used - s_alloc_table[i].size
         /\ heap_total_freed' = (heap_total_freed + s_alloc_table[i].size) % U16
         /\ free_count' = (free_count + 1) % U16
         /\ s_alloc_table' = [s_alloc_table EXCEPT ![i].active = 0]
         /\ UNCHANGED <<heap_total_allocated, alloc_count>>

TrackFreeEffect(ptr) ==
    LET i == FindActiveSlot(s_alloc_table, ptr, 1) IN
    IF ptr = NULL \/ i = 0
    THEN UNCHANGED ledger
    ELSE /\ heap_used' = (heap_used - s_alloc_table[i].size) % U16
         /\ heap_total_freed' = (heap_total_freed + s_alloc_table[i].size) % U16
         /\ free_count' = (free_count + 1) % U16
         /\ s_alloc_table' = [s_alloc_table EXCEPT ![i].active = 0]
         /\ UNCHANGED <<heap_total_allocated, alloc_count>>

mem_monitor_track_free(ptr) ==
    /\ inited
    /\ TrackFreeEffect(ptr)
    /\ last_call' = Call("track_free", ptr, 0, 0)
    /\ UNCHANGED <<tracker, machine, inited>>
    /\ UNCHANGED context

----------------------------------------------------------------------------
(* Stack monitoring                                                        *)

\* Faulty variant: the bound of the scan is one past RAMEND.
RECURSIVE ScanStop_Inclusive(_, _)
ScanStop_Inclusive(m, scan_ptr) ==
    IF scan_ptr <= RAMEND /\ m[scan_ptr] = STACK_SENTINEL
    THEN ScanStop_Inclusive(m, scan_ptr + 1)
    ELSE scan_ptr

\* The while loop of scan_stack_usage: the address the scan stops at.
RECURSIVE ScanStop(_, _)
ScanStop(m, scan_ptr) ==
    IF m[scan_ptr] = STACK_SENTINEL /\ scan_ptr < RAMEND
    THEN ScanStop(m, scan_ptr + 1)
    ELSE scan_ptr

\* Faulty variant: the depth of the stack now, not the depth of the scan.
scan_stack_usage_Current == (RAMEND - SP) % U16

\* Faulty variant: the ceiling taken as one past RAMEND.
scan_stack_usage_OnePast == (RAMEND + 1 - ScanStop(mem, HeapEnd)) % U16

\* How many times the loop of scan_stack_usage advances scan_ptr.
ScanSteps(m, heap_end) == ScanStop(m, heap_end) - heap_end

scan_stack_usage == (RAMEND - ScanStop(mem, HeapEnd)) % U16

mem_monitor_get_current_stack_usage ==
    (RAMEND - mem_monitor_get_stack_pointer) % U16

\* Faulty variant: the difference is taken without comparing first.
mem_monitor_get_free_stack_space_Unguarded ==
    (mem_monitor_get_stack_pointer - HeapEnd) % U16

mem_monitor_get_free_stack_space ==
    IF mem_monitor_get_stack_pointer > HeapEnd
    THEN (mem_monitor_get_stack_pointer - HeapEnd) % U16
    ELSE 0

----------------------------------------------------------------------------
(* Heap analysis                                                           *)

\* The ratio is kept exact as numerator and denominator: a zero result is
\* 0/1, a clamped one 1/1.
Ratio(n, d) == [num |-> n, den |-> d]

\* Faulty variants of the heuristic.
\* The threshold is tested on the live count, not on alloc_count.
mem_monitor_get_fragmentation_ratio_LiveThreshold ==
    LET total_heap == (HeapEnd - heap_start) % U16
        total_free == (total_heap - heap_used) % U16
        live == (alloc_count - free_count) % U16
    IN  IF total_free = 0 \/ alloc_count = 0 THEN Ratio(0, 1)
        ELSE IF live > (free_count + 5) % U16
        THEN IF live > MAX_HEAP_ALLOCATIONS THEN Ratio(1, 1)
             ELSE Ratio(live, MAX_HEAP_ALLOCATIONS)
        ELSE Ratio(0, 1)

\* The difference of the counters is taken in signed arithmetic wider than
\* 16 bits.
mem_monitor_get_fragmentation_ratio_Signed ==
    LET total_heap == (HeapEnd - heap_start) % U16
        total_free == (total_heap - heap_used) % U16
        live == alloc_count - free_count
    IN  IF total_free = 0 \/ alloc_count = 0 THEN Ratio(0, 1)
        ELSE IF alloc_count > (free_count + 5) % U16
        THEN IF live > MAX_HEAP_ALLOCATIONS THEN Ratio(1, 1)
             ELSE Ratio(live, MAX_HEAP_ALLOCATIONS)
        ELSE Ratio(0, 1)

mem_monitor_get_fragmentation_ratio ==
    LET total_heap == (HeapEnd - heap_start) % U16
        total_free == (total_heap - heap_used) % U16
        live == (alloc_count - free_count) % U16
    IN  IF total_free = 0 \/ alloc_count = 0 THEN Ratio(0, 1)
        ELSE IF alloc_count > (free_count + 5) % U16
        THEN IF live > MAX_HEAP_ALLOCATIONS THEN Ratio(1, 1)
             ELSE Ratio(live, MAX_HEAP_ALLOCATIONS)
        ELSE Ratio(0, 1)

----------------------------------------------------------------------------
(* Collision detection                                                     *)

CollisionGap == (mem_monitor_get_stack_pointer - HeapEnd) % U16

\* Faulty variant: the margin itself counts as too close.
CollisionVerdict_Inclusive ==
    IF CollisionGap <= COLLISION_SAFETY_MARGIN THEN 1 ELSE 0

CollisionVerdict == IF CollisionGap < COLLISION_SAFETY_MARGIN THEN 1 ELSE 0

\* Faulty variant, the check as docs/TECHNICAL_NOTES.md prints it: the flag
\* is set and never cleared.
mem_monitor_check_collision_Latching ==
    /\ inited
    /\ collision_warning' = IF CollisionVerdict = 1 THEN 1
                            ELSE collision_warning
    /\ last_call' = Call("check_collision", NULL, 0, CollisionVerdict)
    /\ UNCHANGED <<ledger, init_stack_pointer, max_stack_usage, machine, inited>>
    /\ UNCHANGED context

mem_monitor_check_collision ==
    /\ inited
    /\ collision_warning' = CollisionVerdict
    /\ last_call' = Call("check_collision", NULL, 0, CollisionVerdict)
    /\ UNCHANGED <<ledger, init_stack_pointer, max_stack_usage, machine, inited>>
    /\ UNCHANGED context

----------------------------------------------------------------------------
(* Update and statistics                                                   *)

\* Faulty variant: the latest scan replaces the stored peak.
UpdatedMax_Latest(max_stack) == max_stack

UpdatedMax(max_stack) ==
    IF max_stack > max_stack_usage THEN max_stack ELSE max_stack_usage

\* Faulty variant: the scan writes the sentinel back over what it has read.
mem_monitor_update_Refill ==
    /\ inited
    /\ max_stack_usage' = UpdatedMax(scan_stack_usage)
    /\ collision_warning' = CollisionVerdict
    /\ mem' = SentinelFill(mem, HeapEnd, mem_monitor_get_stack_pointer)
    /\ last_call' = Call("update", NULL, 0, 0)
    /\ UNCHANGED <<ledger, init_stack_pointer, inited>>
    /\ UNCHANGED <<SP, brkval, frames, stack_low>>
    /\ UNCHANGED context

mem_monitor_update ==
    /\ inited
    /\ max_stack_usage' = UpdatedMax(scan_stack_usage)
    /\ collision_warning' = CollisionVerdict
    /\ last_call' = Call("update", NULL, 0, 0)
    /\ UNCHANGED <<ledger, init_stack_pointer, machine, inited>>
    /\ UNCHANGED context

\* Faulty variant: the peak reported is measured afresh instead of copied.
MemoryStats_FreshScan ==
    [ heap_used            |-> heap_used,
      heap_total_allocated |-> heap_total_allocated,
      heap_total_freed     |-> heap_total_freed,
      alloc_count          |-> alloc_count,
      free_count           |-> free_count,
      current_stack_usage  |-> mem_monitor_get_current_stack_usage,
      max_stack_usage      |-> UpdatedMax(scan_stack_usage),
      free_ram             |-> mem_monitor_get_free_stack_space,
      fragmentation_ratio  |-> mem_monitor_get_fragmentation_ratio,
      collision_warning    |-> collision_warning ]

MemoryStats ==
    [ heap_used            |-> heap_used,
      heap_total_allocated |-> heap_total_allocated,
      heap_total_freed     |-> heap_total_freed,
      alloc_count          |-> alloc_count,
      free_count           |-> free_count,
      current_stack_usage  |-> mem_monitor_get_current_stack_usage,
      max_stack_usage      |-> max_stack_usage,
      free_ram             |-> mem_monitor_get_free_stack_space,
      fragmentation_ratio  |-> mem_monitor_get_fragmentation_ratio,
      collision_warning    |-> collision_warning ]

mem_monitor_get_stats ==
    /\ inited
    /\ last_call' = Call("get_stats", NULL, 0, MemoryStats)
    /\ UNCHANGED <<ledger, tracker, machine, inited>>
    /\ UNCHANGED context

\* mem_monitor_get_stats(NULL): the call returns at its first line.
mem_monitor_get_stats_null ==
    /\ inited
    /\ last_call' = Call("get_stats_null", NULL, 0, 0)
    /\ UNCHANGED <<ledger, tracker, machine, inited>>
    /\ UNCHANGED context

----------------------------------------------------------------------------
(* Specification                                                           *)

\* Every operation together, the ledger calls over one address and one size
\* and the frames above main's 128 bytes each.
Next ==
    \/ \E b \in StackBytes : Len(frames) < MaxDepth /\ stack_push(128, b)
    \/ stack_pop
    \/ \E n \in 1..MaxHeapGrowth : heap_grow(n)
    \/ mem_monitor_init
    \/ alloc_count < MaxAllocs /\ mem_monitor_track_alloc(520, 16)
    \/ mem_monitor_track_free(520)
    \/ mem_monitor_check_collision
    \/ mem_monitor_update
    \/ mem_monitor_get_stats
    \/ mem_monitor_get_stats_null

Spec == MainEntry(8, 31, 0) /\ [][Next]_vars

\* The ledger alone: the three calls that touch it, from one entry state.
NextLedger ==
    \/ mem_monitor_init
    \/ \E ptr \in Ptrs, size \in Sizes :
          alloc_count < MaxAllocs /\ mem_monitor_track_alloc(ptr, size)
    \/ \E ptr \in Ptrs : mem_monitor_track_free(ptr)

SpecLedger == MainEntry(8, 31, 0) /\ [][NextLedger]_vars

\* The stack tracker alone: the stack, the heap end and the calls that read
\* them.
NextStack ==
    \/ \E n \in FrameSizes, b \in StackBytes :
          Len(frames) < MaxDepth /\ stack_push(n, b)
    \/ stack_pop
    \/ \E n \in 1..MaxHeapGrowth : heap_grow(n)
    \/ mem_monitor_init
    \/ mem_monitor_check_collision
    \/ mem_monitor_update
    \/ mem_monitor_get_stats

SpecStack == Init /\ [][NextStack]_vars

----------------------------------------------------------------------------
(* mem_monitor_get_stack_pointer, instruction by instruction, with          *)
(* interrupts                                                               *)

\* The global interrupt enable bit of SREG.
SREG_I == 128

\* The hardware pushes the 2-byte program counter when it takes an interrupt.
ReturnAddressBytes == 2

\* Main-line code runs: no handler is active.
MainLine == in_isr = 0

\* sei and cli in main-line code outside the monitor.
main_sei ==
    /\ MainLine
    /\ gsp.pc = "idle"
    /\ SREG = 0
    /\ SREG' = SREG_I
    /\ last_call' = NoCall
    /\ UNCHANGED <<ledger, tracker, machine, inited>>
    /\ UNCHANGED <<in_isr, gsp, allocated, wrap, track, scan, uart>>

main_cli ==
    /\ MainLine
    /\ gsp.pc = "idle"
    /\ SREG = SREG_I
    /\ SREG' = 0
    /\ last_call' = NoCall
    /\ UNCHANGED <<ledger, tracker, machine, inited>>
    /\ UNCHANGED <<in_isr, gsp, allocated, wrap, track, scan, uart>>

\* An interrupt is taken: only with the I bit set; the hardware clears the
\* bit and pushes the return address.
isr_enter(b) ==
    /\ SREG = SREG_I
    /\ in_isr = 0
    /\ SP - ReturnAddressBytes >= heap_start
    /\ SREG' = 0
    /\ in_isr' = 1
    /\ mem' = [a \in Addr |-> IF SP - ReturnAddressBytes < a /\ a <= SP THEN b
                              ELSE mem[a]]
    /\ SP' = SP - ReturnAddressBytes
    /\ frames' = Append(frames, ReturnAddressBytes)
    /\ stack_low' = IF inited /\ SP - ReturnAddressBytes + 1 < stack_low
                    THEN SP - ReturnAddressBytes + 1
                    ELSE stack_low
    /\ last_call' = NoCall
    /\ UNCHANGED <<ledger, tracker, inited, brkval>>
    /\ UNCHANGED <<gsp, allocated, wrap, track, scan, uart>>

\* The handler has unwound to its return address.
AtReturnAddress == frames[Len(frames)] = ReturnAddressBytes

\* reti: the return address is popped and the I bit is set.
isr_exit ==
    /\ in_isr = 1
    /\ AtReturnAddress
    /\ SP' = SP + ReturnAddressBytes
    /\ frames' = SubSeq(frames, 1, Len(frames) - 1)
    /\ SREG' = SREG_I
    /\ in_isr' = 0
    /\ last_call' = NoCall
    /\ UNCHANGED <<ledger, tracker, inited, brkval, mem, stack_low>>
    /\ UNCHANGED <<gsp, allocated, wrap, track, scan, uart>>

\* One instruction of the call changes the frame of the call and, where
\* given, SREG; the monitor, the stack and the heap stay as they are.
GspStep(frame, sreg) ==
    /\ MainLine
    /\ gsp' = frame
    /\ SREG' = sreg
    /\ UNCHANGED <<ledger, tracker, machine, inited>>
    /\ UNCHANGED <<in_isr, allocated, wrap, track, scan, uart>>

gsp_call ==
    /\ gsp.pc = "idle"
    /\ GspStep([GspIdle EXCEPT !.pc = "save", !.entry = SREG], SREG)
    /\ last_call' = NoCall

\* sreg = SREG;
gsp_save ==
    /\ gsp.pc = "save"
    /\ GspStep([gsp EXCEPT !.pc = "cli", !.sreg = SREG], SREG)
    /\ last_call' = NoCall

\* Faulty variant: the interrupts are left as they are.
gsp_cli_Skipped ==
    /\ gsp.pc = "cli"
    /\ GspStep([gsp EXCEPT !.pc = "spl"], SREG)
    /\ last_call' = NoCall

\* cli
gsp_cli ==
    /\ gsp.pc = "cli"
    /\ GspStep([gsp EXCEPT !.pc = "spl"], 0)
    /\ last_call' = NoCall

\* sp = SPL;
gsp_read_spl ==
    /\ gsp.pc = "spl"
    /\ GspStep([gsp EXCEPT !.pc = "sph", !.sp = SP % 256], SREG)
    /\ last_call' = NoCall

\* sp |= ((uint16_t)SPH << 8);  the low byte is below 256, so the or is a sum
gsp_read_sph ==
    /\ gsp.pc = "sph"
    /\ GspStep([gsp EXCEPT !.pc = "restore",
                           !.sp = (gsp.sp + (SP \div 256) * 256) % U16], SREG)
    /\ last_call' = NoCall

\* Faulty variant: the interrupts are enabled whatever they were.
gsp_restore_Sei ==
    /\ gsp.pc = "restore"
    /\ GspStep(GspIdle, SREG_I)
    /\ last_call' = Call("get_stack_pointer", NULL, 0, gsp.sp)

\* SREG = sreg; return sp;
gsp_restore ==
    /\ gsp.pc = "restore"
    /\ GspStep(GspIdle, gsp.sreg)
    /\ last_call' = Call("get_stack_pointer", NULL, 0, gsp.sp)

\* Main-line code calls and returns outside the monitor; a handler pushes one
\* frame of its own above its return address.
NextIrq ==
    \/ main_sei
    \/ main_cli
    \/ \E b \in StackBytes : isr_enter(b)
    \/ isr_exit
    \/ \E b \in StackBytes :
          in_isr = 1 /\ AtReturnAddress /\ stack_push(8, b)
    \/ in_isr = 1 /\ ~AtReturnAddress /\ stack_pop
    \/ \E b \in StackBytes :
          MainLine /\ gsp.pc = "idle" /\ Len(frames) < MaxDepth
              /\ stack_push(8, b)
    \/ MainLine /\ gsp.pc = "idle" /\ stack_pop
    \/ gsp_call
    \/ gsp_save
    \/ gsp_cli
    \/ gsp_read_spl
    \/ gsp_read_sph
    \/ gsp_restore

SpecIrq == MainEntry(8, 31, 0) /\ [][NextIrq]_vars

----------------------------------------------------------------------------
(* The malloc and free wrappers, call by call                              *)

\* The blocks the real allocator can hand out: one more than the table has
\* slots.
WrapBlocks == {520 + 66 * (k - 1) : k \in 1..(ModelSlots + 1)}

\* One step of a wrapper leaves the machine and the tracker alone.
WrapStep(frame) ==
    /\ wrap' = frame
    /\ UNCHANGED <<tracker, machine, inited>>
    /\ UNCHANGED <<SREG, in_isr, gsp, track, scan, uart>>

\* The allocator searches its free memory from the low end.
LowestFree(p) ==
    /\ p \in WrapBlocks \ allocated
    /\ \A q \in WrapBlocks \ allocated : p <= q

\* void* ptr = __real_malloc(size);  the real allocator returns the lowest
\* block it has not handed out, or NULL.
wrap_malloc_real(size, p) ==
    /\ inited
    /\ wrap.pc = "idle"
    /\ p = NULL \/ LowestFree(p)
    /\ allocated' = IF p = NULL THEN allocated ELSE allocated \cup {p}
    /\ WrapStep([pc |-> "m_track", size |-> size, ptr |-> p, real_calls |-> 1,
                 real_arg |-> size, real_ret |-> p])
    /\ last_call' = NoCall
    /\ UNCHANGED ledger

\* Faulty variant: NULL is returned when the block could not be recorded.
wrap_malloc_track_NullWhenFull ==
    /\ wrap.pc = "m_track"
    /\ TrackAllocEffect(wrap.ptr, wrap.size % U16)
    /\ WrapStep([wrap EXCEPT !.pc = "idle"])
    /\ last_call' = Call("wrap_malloc", NULL, wrap.size,
                         IF FindFreeSlot(s_alloc_table, 1) = 0 THEN NULL
                         ELSE wrap.ptr)
    /\ UNCHANGED allocated

\* mem_monitor_track_alloc(ptr, (uint16_t)size); return ptr;
wrap_malloc_track ==
    /\ wrap.pc = "m_track"
    /\ TrackAllocEffect(wrap.ptr, wrap.size % U16)
    /\ WrapStep([wrap EXCEPT !.pc = "idle"])
    /\ last_call' = Call("wrap_malloc", NULL, wrap.size, wrap.ptr)
    /\ UNCHANGED allocated

\* Faulty variant: the block is released first and the ledger is not told.
wrap_free_track_ReleaseFirst(ptr) ==
    /\ inited
    /\ wrap.pc = "idle"
    /\ allocated' = allocated \ {ptr}
    /\ WrapStep([pc |-> "f_real", size |-> 0, ptr |-> ptr, real_calls |-> 0,
                 real_arg |-> 0, real_ret |-> NULL])
    /\ last_call' = NoCall
    /\ UNCHANGED ledger

\* mem_monitor_track_free(ptr);
wrap_free_track(ptr) ==
    /\ inited
    /\ wrap.pc = "idle"
    /\ TrackFreeEffect(ptr)
    /\ WrapStep([pc |-> "f_real", size |-> 0, ptr |-> ptr, real_calls |-> 0,
                 real_arg |-> 0, real_ret |-> NULL])
    /\ last_call' = NoCall
    /\ UNCHANGED allocated

\* __real_free(ptr);  the block goes back to the allocator; free(NULL) does
\* nothing.
wrap_free_real ==
    /\ wrap.pc = "f_real"
    /\ allocated' = allocated \ {wrap.ptr}
    /\ WrapStep([wrap EXCEPT !.pc = "idle", !.real_calls = wrap.real_calls + 1,
                             !.real_arg = wrap.ptr])
    /\ last_call' = Call("wrap_free", wrap.ptr, 0, 0)
    /\ UNCHANGED ledger

\* The program allocates through malloc and frees, through free, NULL or a
\* block it holds; it may initialise the monitor again between two calls.
NextWrap ==
    \/ wrap.pc = "idle" /\ mem_monitor_init
    \/ \E p \in WrapBlocks \cup {NULL} :
          alloc_count < MaxAllocs /\ wrap_malloc_real(16, p)
    \/ wrap_malloc_track
    \/ \E ptr \in allocated \cup {NULL} : wrap_free_track(ptr)
    \/ wrap_free_real

SpecWrap == MainEntry(8, 31, 0) /\ [][NextWrap]_vars

----------------------------------------------------------------------------
(* track_alloc and track_free in main-line code, step by step, with        *)
(* handlers that call them too                                             *)

\* A step of a main-line call: interrupts, the stack and the tracker stay as
\* they are.
TrackStep(frame) ==
    /\ MainLine
    /\ track' = frame
    /\ UNCHANGED <<tracker, machine, inited>>
    /\ UNCHANGED <<SREG, in_isr, gsp, allocated, wrap, scan, uart>>

\* if (ptr == NULL) return;  and the loop up to the slot whose active flag
\* is 0; without one the call returns.
track_alloc_scan(ptr, size) ==
    LET i == FindFreeSlot(s_alloc_table, 1) IN
    /\ inited
    /\ track.pc = "idle"
    /\ TrackStep(IF ptr = NULL \/ i = 0 THEN TrackIdle
                 ELSE [pc |-> "a_write", ptr |-> ptr, size |-> size, i |-> i])
    /\ last_call' = IF ptr = NULL \/ i = 0
                    THEN Call("track_alloc", ptr, size, 0)
                    ELSE NoCall
    /\ UNCHANGED ledger

\* s_alloc_table[i].ptr = ptr; .size = size; .active = 1;
track_alloc_write ==
    /\ track.pc = "a_write"
    /\ TrackStep([track EXCEPT !.pc = "a_count"])
    /\ s_alloc_table' = [s_alloc_table EXCEPT ![track.i] =
                            [ptr |-> track.ptr, size |-> track.size,
                             active |-> 1]]
    /\ last_call' = NoCall
    /\ UNCHANGED <<heap_used, heap_total_allocated, heap_total_freed,
                   alloc_count, free_count>>

\* heap_used += size; heap_total_allocated += size; alloc_count++; return;
track_alloc_count ==
    /\ track.pc = "a_count"
    /\ TrackStep(TrackIdle)
    /\ heap_used' = (heap_used + track.size) % U16
    /\ heap_total_allocated' = (heap_total_allocated + track.size) % U16
    /\ alloc_count' = (alloc_count + 1) % U16
    /\ last_call' = Call("track_alloc", track.ptr, track.size, 0)
    /\ UNCHANGED <<s_alloc_table, heap_total_freed, free_count>>

\* if (ptr == NULL) return;  and the loop up to the active slot that holds
\* ptr; without one the call returns.
track_free_scan(ptr) ==
    LET i == FindActiveSlot(s_alloc_table, ptr, 1) IN
    /\ inited
    /\ track.pc = "idle"
    /\ TrackStep(IF ptr = NULL \/ i = 0 THEN TrackIdle
                 ELSE [pc |-> "f_update", ptr |-> ptr, size |-> 0, i |-> i])
    /\ last_call' = IF ptr = NULL \/ i = 0
                    THEN Call("track_free", ptr, 0, 0)
                    ELSE NoCall
    /\ UNCHANGED ledger

\* heap_used -= size of the slot; heap_total_freed += it; free_count++;
\* s_alloc_table[i].active = 0; return;
track_free_update ==
    /\ track.pc = "f_update"
    /\ TrackStep(TrackIdle)
    /\ heap_used' = (heap_used - s_alloc_table[track.i].size) % U16
    /\ heap_total_freed' =
           (heap_total_freed + s_alloc_table[track.i].size) % U16
    /\ free_count' = (free_count + 1) % U16
    /\ s_alloc_table' = [s_alloc_table EXCEPT ![track.i].active = 0]
    /\ last_call' = Call("track_free", track.ptr, 0, 0)
    /\ UNCHANGED <<heap_total_allocated, alloc_count>>

\* A handler runs from entry to reti with interrupts off, so its call is one
\* step of the main line; it can be taken wherever the I bit is set.
NextTrack ==
    \/ track.pc = "idle" /\ main_sei
    \/ track.pc = "idle" /\ main_cli
    \/ track.pc = "idle" /\ mem_monitor_init
    \/ \E ptr \in Ptrs :
          alloc_count < MaxAllocs /\ track_alloc_scan(ptr, 16)
    \/ track_alloc_write
    \/ track_alloc_count
    \/ \E ptr \in Ptrs : track_free_scan(ptr)
    \/ track_free_update
    \/ \E ptr \in Ptrs :
          SREG = SREG_I /\ alloc_count < MaxAllocs
              /\ mem_monitor_track_alloc(ptr, 16)
    \/ \E ptr \in Ptrs : SREG = SREG_I /\ mem_monitor_track_free(ptr)

SpecTrack == MainEntry(8, 31, 0) /\ [][NextTrack]_vars

----------------------------------------------------------------------------
(* mem_monitor_update, the scan byte by byte, with interrupts               *)

\* Faulty variant: the ceiling taken as one past RAMEND.
ScanUsage_OnePast(scan_ptr) == (RAMEND + 1 - scan_ptr) % U16

\* uint16_t max_usage = RAMEND - (uint16_t)scan_ptr;
ScanUsage(scan_ptr) == (RAMEND - scan_ptr) % U16

\* uint8_t* scan_ptr = heap_end;
update_begin ==
    /\ inited
    /\ MainLine
    /\ scan.pc = "idle"
    /\ scan' = [pc |-> "loop", scan_ptr |-> HeapEnd]
    /\ last_call' = NoCall
    /\ UNCHANGED <<ledger, tracker, machine, inited>>
    /\ UNCHANGED <<SREG, in_isr, gsp, allocated, wrap, track, uart>>

\* One evaluation of the condition of the while loop, and scan_ptr++ when it
\* holds.
update_scan ==
    /\ MainLine
    /\ scan.pc = "loop"
    /\ scan' = IF mem[scan.scan_ptr] = STACK_SENTINEL /\ scan.scan_ptr < RAMEND
               THEN [scan EXCEPT !.scan_ptr = scan.scan_ptr + 1]
               ELSE [scan EXCEPT !.pc = "store"]
    /\ last_call' = NoCall
    /\ UNCHANGED <<ledger, tracker, machine, inited>>
    /\ UNCHANGED <<SREG, in_isr, gsp, allocated, wrap, track, uart>>

\* The rest of mem_monitor_update: the comparison with the stored peak and
\* the call of mem_monitor_check_collision, which reads SP with interrupts
\* off.
update_store ==
    /\ MainLine
    /\ scan.pc = "store"
    /\ max_stack_usage' = UpdatedMax(ScanUsage(scan.scan_ptr))
    /\ collision_warning' = CollisionVerdict
    /\ scan' = ScanIdle
    /\ last_call' = Call("update", NULL, 0, 0)
    /\ UNCHANGED <<ledger, init_stack_pointer, machine, inited>>
    /\ UNCHANGED <<SREG, in_isr, gsp, allocated, wrap, track, uart>>

\* Main's frame leaves 16 bytes between heap and stack, so that a scan is a
\* few steps long; a handler can be taken between any two of them.
NextUpdate ==
    \/ scan.pc = "idle" /\ main_sei
    \/ scan.pc = "idle" /\ main_cli
    \/ \E b \in StackBytes : isr_enter(b)
    \/ isr_exit
    \/ \E b \in StackBytes :
          in_isr = 1 /\ AtReturnAddress /\ stack_push(8, b)
    \/ in_isr = 1 /\ ~AtReturnAddress /\ stack_pop
    \/ \E b \in StackBytes :
          MainLine /\ scan.pc = "idle" /\ Len(frames) < MaxDepth
              /\ stack_push(8, b)
    \/ MainLine /\ scan.pc = "idle" /\ stack_pop
    \/ \E n \in 1..MaxHeapGrowth :
          MainLine /\ scan.pc = "idle" /\ heap_grow(n)
    \/ MainLine /\ scan.pc = "idle" /\ mem_monitor_init
    \/ update_begin
    \/ update_scan
    \/ update_store

SpecUpdate ==
    (\E g \in PowerOnBytes : MainEntry(120, 31, g)) /\ [][NextUpdate]_vars

----------------------------------------------------------------------------
(* uart_print_u16 and the transmitter                                      *)

\* The character '0'.
ASCII_0 == 48

\* The values printed: the small ones, the powers of ten and their
\* neighbours, and the top of the 16-bit range.
PrintValues ==
    (0..MaxSmallValue)
        \cup {999, 1000, 1001, 9999, 10000, 10001, 32768, 40960}
        \cup ((U16 - 3)..(U16 - 1))

\* A step of the print or of the transmitter: the monitor and the machine
\* stay as they are.
UartStep(frame) ==
    /\ uart' = frame
    /\ UNCHANGED <<ledger, tracker, machine, inited>>
    /\ UNCHANGED <<SREG, in_isr, gsp, allocated, wrap, track, scan>>

\* The call, the terminator stored at the end of the buffer, and the test
\* for zero: for 0 the one character '0' is what is sent.
uart_print_u16_call(value) ==
    /\ uart.pc = "idle"
    /\ UartStep([uart EXCEPT !.pc = IF value = 0 THEN "putc" ELSE "convert",
                             !.arg = value,
                             !.value = value,
                             !.text = IF value = 0 THEN <<ASCII_0>> ELSE <<>>,
                             !.out = <<>>])
    /\ last_call' = NoCall

\* Faulty variant: the digits are stored in the order they are produced.
uart_convert_Forward ==
    /\ uart.pc = "convert"
    /\ UartStep([uart EXCEPT
           !.text = Append(uart.text, ASCII_0 + (uart.value % 10)),
           !.value = uart.value \div 10,
           !.pc = IF uart.value \div 10 > 0 THEN "convert" ELSE "putc"])
    /\ last_call' = NoCall

\* *--ptr = '0' + (value % 10); value /= 10;  one pass of the loop, which
\* runs while value > 0
uart_convert ==
    /\ uart.pc = "convert"
    /\ UartStep([uart EXCEPT
           !.text = <<ASCII_0 + (uart.value % 10)>> \o uart.text,
           !.value = uart.value \div 10,
           !.pc = IF uart.value \div 10 > 0 THEN "convert" ELSE "putc"])
    /\ last_call' = NoCall

\* uart_putc: the wait for UDRE is over and the character is written to
\* UDR0, which fills the transmit buffer; uart_puts goes on to the next
\* character until it meets the terminator.
uart_putc ==
    /\ uart.pc = "putc"
    /\ uart.udre = 1
    /\ UartStep([uart EXCEPT
           !.out = Append(uart.out, Head(uart.text)),
           !.text = Tail(uart.text),
           !.udre = 0,
           !.pc = IF Tail(uart.text) = <<>> THEN "done" ELSE "putc"])
    /\ last_call' = NoCall

\* The transmitter takes the byte out of the buffer and sets UDRE.
uart_tx_ready ==
    /\ uart.udre = 0
    /\ UartStep([uart EXCEPT !.udre = 1])
    /\ last_call' = NoCall

\* return;
uart_print_u16_return ==
    /\ uart.pc = "done"
    /\ UartStep([UartIdle EXCEPT !.udre = uart.udre])
    /\ last_call' = Call("uart_print_u16", NULL, 0, uart.out)

NextUart ==
    \/ \E value \in PrintValues : uart_print_u16_call(value)
    \/ uart_convert
    \/ uart_putc
    \/ uart_tx_ready
    \/ uart_print_u16_return

\* The loop and the callers run on; the transmitter accepts each byte in the
\* end.
SpecUart ==
    /\ MainEntry(8, 31, 0)
    /\ [][NextUart]_vars
    /\ WF_vars(uart_convert)
    /\ WF_vars(uart_putc)
    /\ WF_vars(uart_tx_ready)

\* The loops at their longest: main's frame may hold the sentinel value in
\* every byte, so that the scan can run to RAMEND, and the table can fill.
NextLoops ==
    \/ Len(frames) < MaxDepth /\ stack_push(8, STACK_SENTINEL)
    \/ stack_pop
    \/ mem_monitor_init
    \/ alloc_count < MaxAllocs /\ mem_monitor_track_alloc(520, 16)
    \/ \E ptr \in Ptrs : mem_monitor_track_free(ptr)
    \/ mem_monitor_update

SpecLoops ==
    (\E b \in StackBytes : MainEntry(8, b, STACK_SENTINEL)) /\ [][NextLoops]_vars

\* The scan alone: main's frame of 8 bytes, one frame of 43 bytes that all
\* hold the sentinel value and one frame of 8 ordinary bytes, so that 8
\* ordinary bytes can lie 50 bytes below the stack pointer of init.
ScanEntry == \E g \in PowerOnBytes : MainEntry(8, 31, g)

NextScan ==
    \/ Len(frames) < MaxScanDepth /\ stack_push(43, STACK_SENTINEL)
    \/ Len(frames) < MaxScanDepth /\ stack_push(8, 31)
    \/ stack_pop
    \/ \E n \in 1..MaxHeapGrowth : heap_grow(n)
    \/ mem_monitor_init
    \/ mem_monitor_update

SpecScan == ScanEntry /\ [][NextScan]_vars

\* The fragmentation heuristic, on the table of 32 slots.  The blocks are
\* those of heap_fragmentation_test: the allocator hands out the first block
\* that is not in use, and the test frees alternating blocks (the second,
\* fourth, sixth and eighth).
ScenarioSizes == <<16, 32, 16, 64, 16, 32, 16, 48>>

Blocks == 1..Len(ScenarioSizes)

BlockAddr(k) == 520 + 66 * (k - 1)

\* A value of the event counters three events short of the wrap.
NearWrap == U16 - 3

\* The heap ends the heuristic is asked about: no heap yet, and a heap of
\* 128 bytes, which the blocks 1, 2, 3, 5, 6 and 7 fill to the last byte.
FragHeapEnds == {NULL, heap_start + 128}

\* main has called mem_monitor_init and then c times track_alloc and
\* track_free of the first block; the allocator has set the heap end to brk.
FragEntry(c, brk) ==
    /\ s_alloc_table =
          [i \in 1..ProgramSlots |->
              IF i = 1 /\ c # 0
              THEN [ptr |-> BlockAddr(1), size |-> ScenarioSizes[1], active |-> 0]
              ELSE EmptyEntry]
    /\ init_stack_pointer = RAMEND - 8
    /\ max_stack_usage = 0
    /\ heap_used = 0
    /\ heap_total_allocated = (c * ScenarioSizes[1]) % U16
    /\ heap_total_freed = (c * ScenarioSizes[1]) % U16
    /\ alloc_count = c
    /\ free_count = c
    /\ collision_warning = 0
    /\ SP = RAMEND - 8
    /\ brkval = brk
    /\ mem = SentinelFill([a \in Addr |-> IF a > RAMEND - 8 THEN 31 ELSE 0],
                          heap_start, RAMEND - 8)
    /\ frames = <<8>>
    /\ inited = TRUE
    /\ stack_low = RAMEND - 8 + 1
    /\ last_call = NoCall
    /\ ContextAtEntry

NextFrag ==
    \/ mem_monitor_init
    \/ \E k \in Blocks :
          /\ alloc_count < MaxFragAllocs \/ alloc_count >= NearWrap
          /\ ~Tracked(BlockAddr(k))
          /\ \A j \in 1..(k - 1) : Tracked(BlockAddr(j))
          /\ mem_monitor_track_alloc(BlockAddr(k), ScenarioSizes[k])
    \/ \E k \in Blocks :
          /\ k % 2 = 0
          /\ Tracked(BlockAddr(k))
          /\ mem_monitor_track_free(BlockAddr(k))
    \/ mem_monitor_get_stats

SpecFrag ==
    (\E c \in {0, NearWrap}, brk \in FragHeapEnds : FragEntry(c, brk))
    /\ [][NextFrag]_vars

----------------------------------------------------------------------------
(* Properties of the allocation ledger                                     *)

ActiveSlots == {i \in Slots : s_alloc_table[i].active # 0}

RECURSIVE SumSizes(_)
SumSizes(S) ==
    IF S = {} THEN 0
    ELSE LET i == CHOOSE j \in S : TRUE
         IN  s_alloc_table[i].size + SumSizes(S \ {i})

ActiveBytes == SumSizes(ActiveSlots)

TableFull == \A i \in Slots : s_alloc_table[i].active # 0

\* C1 as stated: heap_used equals the sum of the size fields of the active
\* slots.
C1_HeapUsedIsActiveSum == heap_used = ActiveBytes

\* C1, amended: heap_used equals the sum of the size fields of the active
\* slots modulo 2^16, and so the sum itself whenever it is below 65536.
C1_HeapUsedIsActiveSumMod16 == heap_used = ActiveBytes % U16

C1_Witness ==
    /\ last_call.op = "track_free"
    /\ Cardinality(ActiveSlots) = 2
    /\ ActiveBytes >= U16
    /\ heap_used = 0

\* C2: at every point heap_used = heap_total_allocated - heap_total_freed in
\* 16-bit arithmetic and the number of active slots is alloc_count -
\* free_count.  (Checked without the proviso: a rejected allocation changes
\* none of the five counters.)
C2_Conservation ==
    /\ heap_used = (heap_total_allocated - heap_total_freed) % U16
    /\ Cardinality(ActiveSlots) = (alloc_count - free_count) % U16

C2_Witness ==
    /\ last_call.op = "track_free"
    /\ heap_total_allocated < heap_total_freed
    /\ heap_used > 0
    /\ free_count = 1
    /\ alloc_count = 3

\* The step is a call track_alloc(ptr, size), ptr not null, made while every
\* slot is active.
RejectedAlloc ==
    /\ last_call'.op = "track_alloc"
    /\ last_call'.ptr # NULL
    /\ TableFull

\* The step is a call track_free(ptr), ptr not null, that matches no active
\* slot.
UntrackedFree ==
    /\ last_call'.op = "track_free"
    /\ last_call'.ptr # NULL
    /\ ~Tracked(last_call'.ptr)

NullFree == last_call'.op = "track_free" /\ last_call'.ptr = NULL

NullAlloc == last_call'.op = "track_alloc" /\ last_call'.ptr = NULL

\* Everything the monitor keeps: the table and s_mem_state.  The report of
\* get_stats is computed from these and the memory map alone.
monitor == <<ledger, tracker>>

\* C6 as stated: a track_alloc rejected for a full table leaves a trace in
\* the monitor state (a saturation counter goes up by one), so the loss can
\* be seen afterwards.
C6_SaturationObservable == [][RejectedAlloc => monitor' # monitor]_vars

\* C7: a track_alloc rejected for a full table leaves every slot and the
\* counters heap_used, heap_total_allocated, heap_total_freed, alloc_count
\* and free_count unchanged.
C7_RejectedAllocFrame == [][RejectedAlloc => UNCHANGED ledger]_vars

C7_Witness ==
    /\ last_call.op = "track_alloc"
    /\ last_call.ptr # NULL
    /\ TableFull
    /\ \A i \in Slots : s_alloc_table[i].ptr # last_call.ptr
    /\ alloc_count = MAX_HEAP_ALLOCATIONS

\* C8 as stated: a track_free of a non-null address that matches no active
\* slot is counted (an anomaly counter in the monitor state goes up), and a
\* track_free of null is not counted.
C8_AnomalyCounted ==
    [][ /\ UntrackedFree => monitor' # monitor
        /\ NullFree => monitor' = monitor ]_vars

\* C9: track_free of null, or of an address that matches no active slot,
\* leaves the table and the five ledger counters unchanged.
C9_UntrackedFreeFrame == [][NullFree \/ UntrackedFree => UNCHANGED ledger]_vars

C9_Witness ==
    /\ last_call.op = "track_free"
    /\ last_call.ptr # NULL
    /\ ~Tracked(last_call.ptr)
    /\ \E i \in Slots : s_alloc_table[i].ptr = last_call.ptr
    /\ ActiveSlots # {}
    /\ free_count = 1

\* C10: track_alloc of a null address changes no slot and no counter,
\* whatever the size.
C10_NullAllocFrame == [][NullAlloc => UNCHANGED monitor]_vars

C10_Witness ==
    /\ last_call.op = "track_alloc"
    /\ last_call.ptr = NULL
    /\ last_call.size = 32768
    /\ ~TableFull
    /\ alloc_count = 1

----------------------------------------------------------------------------
(* Properties of the stack tracker                                         *)

\* The deepest the stack has been since init: RAMEND minus the lowest
\* address it has written.
PeakDepth == RAMEND - stack_low

C4_MaxNeverDecreases ==
    [][last_call'.op # "init" => max_stack_usage' >= max_stack_usage]_vars

\* An update whose scan found less than the stored peak.
C4_Witness ==
    /\ last_call.op = "update"
    /\ scan_stack_usage < max_stack_usage
    /\ alloc_count > free_count

----------------------------------------------------------------------------
(* Counting and slot selection                                             *)

\* C11 as stated: every track_alloc of a non-null address adds exactly 1 to
\* alloc_count, calls made while the table is full included.
C11_EveryAllocCounted ==
    [][ (last_call'.op = "track_alloc" /\ last_call'.ptr # NULL)
        => alloc_count' = (alloc_count + 1) % U16 ]_vars

\* The lowest-index slot that is inactive, and the lowest-index active slot
\* that holds ptr: stated over the table, without the loops.
LowestInactive ==
    CHOOSE i \in Slots : /\ s_alloc_table[i].active = 0
                         /\ \A j \in 1..(i - 1) : s_alloc_table[j].active # 0

LowestMatch(ptr) ==
    CHOOSE i \in Slots : /\ s_alloc_table[i].active # 0
                         /\ s_alloc_table[i].ptr = ptr
                         /\ \A j \in 1..(i - 1) :
                               ~ ( s_alloc_table[j].active # 0
                                   /\ s_alloc_table[j].ptr = ptr )

\* The step is a track_alloc that the table takes in.
AcceptedAlloc ==
    /\ last_call'.op = "track_alloc"
    /\ last_call'.ptr # NULL
    /\ ~TableFull

\* The step is a track_free of an address some active slot holds.
TrackedFree ==
    /\ last_call'.op = "track_free"
    /\ last_call'.ptr # NULL
    /\ Tracked(last_call'.ptr)

\* C12: track_alloc writes its record into the lowest-index inactive slot
\* and changes no other slot; track_free clears the active flag of the
\* lowest-index active slot holding the address and changes nothing else in
\* the table, so another slot holding the same address stays active.
C12_FirstFit ==
    [][ /\ AcceptedAlloc =>
              s_alloc_table' = [s_alloc_table EXCEPT
                  ![LowestInactive] = [ptr    |-> last_call'.ptr,
                                       size   |-> last_call'.size,
                                       active |-> 1]]
        /\ TrackedFree =>
              s_alloc_table' = [s_alloc_table EXCEPT
                  ![LowestMatch(last_call'.ptr)].active = 0] ]_vars

\* A free of an address recorded twice: the lower slot is released, the
\* higher one still holds the address and is active.
C12_Witness ==
    /\ last_call.op = "track_free"
    /\ \E i, j \in Slots :
          /\ i < j
          /\ s_alloc_table[i].ptr = last_call.ptr
          /\ s_alloc_table[i].active = 0
          /\ s_alloc_table[j].ptr = last_call.ptr
          /\ s_alloc_table[j].active # 0
          /\ \A k \in 1..(i - 1) : s_alloc_table[k].ptr # last_call.ptr

----------------------------------------------------------------------------
(* The scan and the fill                                                   *)

\* Where a scan from the heap end stops: the lowest address at or above the
\* heap end that holds a byte other than the sentinel, RAMEND when there is
\* none below it.
ScanStopAddress ==
    CHOOSE a \in HeapEnd..RAMEND :
        /\ mem[a] # STACK_SENTINEL \/ a = RAMEND
        /\ \A b \in HeapEnd..(a - 1) : mem[b] = STACK_SENTINEL

\* The address of an offset of the worked example, whose address ceiling
\* 1008 is RAMEND.
ScenarioAddr(offset) == RAMEND - 1008 + offset

\* The memory image of the worked example: the stack pointer of init at
\* offset 1000, the deepest write since at offset 950, and below the stack
\* pointer of init ordinary bytes at offsets 950 to 957 and nowhere else
\* above the heap end.
ScanScenario ==
    /\ init_stack_pointer = ScenarioAddr(1000)
    /\ stack_low = ScenarioAddr(950)
    /\ \A a \in HeapEnd..(ScenarioAddr(1000) - 1) :
          mem[a] # STACK_SENTINEL <=> a \in ScenarioAddr(950)..ScenarioAddr(957)

\* C13: the scan of an update starts at the heap end, passes sentinel bytes
\* and stops at the first other byte or at RAMEND, and its result, RAMEND
\* minus that address, is what the update compares with the stored peak.
\* In the worked example the update records 58, with the stack at offset
\* 950 and after it has unwound to offset 1000 alike.
C13_SingleScan ==
    [][ last_call'.op = "update" =>
          /\ max_stack_usage' =
                IF RAMEND - ScanStopAddress > max_stack_usage
                THEN RAMEND - ScanStopAddress ELSE max_stack_usage
          /\ ScanScenario => max_stack_usage' = 58 ]_vars

\* The update after the unwind of the worked example.
C13_Witness ==
    /\ last_call.op = "update"
    /\ ScanScenario
    /\ SP = ScenarioAddr(1000)
    /\ frames = <<8>>
    /\ max_stack_usage = 58

\* C14: init stores the sentinel at every address from the heap end
\* (__brkval, or __heap_start while __brkval is null) up to but not
\* including the stack pointer, and leaves every byte at or above the stack
\* pointer and every byte below the heap end as it was.  (The table and
\* s_mem_state lie in .bss, below __heap_start.)
C14_FillFrame ==
    [][ last_call'.op = "init" =>
          \A a \in Addr :
              mem'[a] = IF HeapEnd <= a /\ a < SP THEN STACK_SENTINEL
                        ELSE mem[a] ]_vars

\* An init with the heap end above __heap_start: sentinels from the heap
\* end to just below the stack pointer, other bytes on both sides.
C14_Witness ==
    /\ last_call.op = "init"
    /\ brkval # NULL
    /\ HeapEnd > heap_start
    /\ mem[heap_start] # STACK_SENTINEL
    /\ mem[HeapEnd] = STACK_SENTINEL
    /\ mem[SP - 1] = STACK_SENTINEL
    /\ mem[SP] # STACK_SENTINEL
    /\ mem[RAMEND] # STACK_SENTINEL

\* C15 as stated: on return from init max_stack_usage is RAMEND minus the
\* stack pointer init captured.
C15_InitSetsMax ==
    last_call.op = "init" => max_stack_usage = RAMEND - init_stack_pointer

----------------------------------------------------------------------------
(* The collision flag                                                      *)

----------------------------------------------------------------------------
(* The fragmentation heuristic                                             *)

\* The free heap space the heuristic computes, and the live count it
\* divides: both 16-bit differences.
TotalFreeHeap == (HeapEnd - heap_start - heap_used) % U16

LiveCount == (alloc_count - free_count) % U16

\* The ratio r is n/d.
RatioIs(r, n, d) == r.den > 0 /\ r.num * d = n * r.den

\* C17 as stated: the ratio is 0 when there is no free heap space or
\* alloc_count is 0; otherwise it is (alloc_count - free_count) /
\* MAX_HEAP_ALLOCATIONS, at most 1, when alloc_count - free_count exceeds
\* free_count + 5, and 0 when it does not.
C17_RatioByLiveCount ==
    last_call.op = "get_stats" =>
        LET r == last_call.ret.fragmentation_ratio IN
        IF TotalFreeHeap = 0 \/ alloc_count = 0 THEN RatioIs(r, 0, 1)
        ELSE IF LiveCount > (free_count + 5) % U16
        THEN IF LiveCount > MAX_HEAP_ALLOCATIONS THEN RatioIs(r, 1, 1)
             ELSE RatioIs(r, LiveCount, MAX_HEAP_ALLOCATIONS)
        ELSE RatioIs(r, 0, 1)

\* C17, amended: the ratio is 0 when there is no free heap space or
\* alloc_count is 0; otherwise it is (alloc_count - free_count) /
\* MAX_HEAP_ALLOCATIONS, at most 1, when alloc_count exceeds free_count + 5,
\* and 0 when it does not; free heap space, difference and sum are 16-bit.
C17_RatioByAllocCount ==
    last_call.op = "get_stats" =>
        LET r == last_call.ret.fragmentation_ratio IN
        IF TotalFreeHeap = 0 \/ alloc_count = 0 THEN RatioIs(r, 0, 1)
        ELSE IF alloc_count > (free_count + 5) % U16
        THEN IF LiveCount > MAX_HEAP_ALLOCATIONS THEN RatioIs(r, 1, 1)
             ELSE RatioIs(r, LiveCount, MAX_HEAP_ALLOCATIONS)
        ELSE RatioIs(r, 0, 1)

\* Ten allocations and four frees: six live blocks are not more than 4 + 5,
\* ten allocations are.
C17_Witness ==
    /\ last_call.op = "get_stats"
    /\ alloc_count = 10
    /\ free_count = 4
    /\ TotalFreeHeap # 0
    /\ RatioIs(last_call.ret.fragmentation_ratio, 6, ProgramSlots)

\* C18 as stated: with free heap space the ratio is other than 0 exactly
\* when alloc_count > free_count + 5, and it is then (alloc_count -
\* free_count)/32; 10 allocations and 2 frees give 8/32 = 1/4, 6 allocations
\* and 3 frees give 0.
C18_ThresholdExamples ==
    (last_call.op = "get_stats" /\ TotalFreeHeap # 0) =>
        LET r == last_call.ret.fragmentation_ratio IN
        /\ r.num # 0 <=> alloc_count > free_count + 5
        /\ r.num # 0 => RatioIs(r, alloc_count - free_count, 32)
        /\ (alloc_count = 10 /\ free_count = 2) =>
              RatioIs(r, 8, 32) /\ RatioIs(r, 1, 4)
        /\ (alloc_count = 6 /\ free_count = 3) => RatioIs(r, 0, 1)

\* C19: the ratio reported lies between 0 and 1, after the counters have
\* wrapped as before.
C19_RatioInUnitInterval ==
    last_call.op = "get_stats" =>
        LET r == last_call.ret.fragmentation_ratio IN
        r.den > 0 /\ 0 <= r.num /\ r.num <= r.den

\* alloc_count has wrapped and free_count has not: the ratio is not 0.
C19_Witness ==
    /\ last_call.op = "get_stats"
    /\ alloc_count < free_count
    /\ free_count >= NearWrap
    /\ last_call.ret.fragmentation_ratio.num > 0

\* C20 as stated: right after heap_fragmentation_test has allocated its
\* eight blocks (240 bytes) on a fresh ledger and freed the second, fourth,
\* sixth and eighth (176 bytes), the ratio reported is 6/32.
C20_ScenarioReports ==
    ( /\ last_call.op = "get_stats"
      /\ alloc_count = 8
      /\ free_count = 4
      /\ heap_total_allocated = 240
      /\ heap_total_freed = 176
      /\ heap_used = 64 )
    => RatioIs(last_call.ret.fragmentation_ratio, 6, 32)

----------------------------------------------------------------------------
(* Re-initialisation                                                       *)

\* C26: when mem_monitor_init has returned, whatever the ledger held when it
\* was called, every slot is inactive and heap_used, heap_total_allocated,
\* heap_total_freed, alloc_count, free_count and collision_warning are 0.
C26_InitClears ==
    last_call.op = "init" =>
        /\ \A i \in Slots : s_alloc_table[i].active = 0
        /\ heap_used = 0
        /\ heap_total_allocated = 0
        /\ heap_total_freed = 0
        /\ alloc_count = 0
        /\ free_count = 0
        /\ collision_warning = 0

\* mem_monitor_init has returned from a call made after the heap had grown
\* under an earlier initialisation.
C26_Witness ==
    /\ last_call.op = "init"
    /\ brkval # NULL
    /\ Len(frames) > 1
    /\ ActiveSlots = {}
    /\ heap_total_allocated = 0

----------------------------------------------------------------------------
(* Reading the statistics                                                  *)

\* C27: mem_monitor_get_stats changes nothing of the monitor's state and
\* reports heap_used, heap_total_allocated, heap_total_freed, alloc_count,
\* free_count, max_stack_usage and collision_warning as they are stored;
\* called with NULL it changes nothing at all.
C27_GetStatsFrame ==
    [][ /\ last_call'.op = "get_stats" =>
            /\ UNCHANGED monitor
            /\ last_call'.ret.heap_used = heap_used
            /\ last_call'.ret.heap_total_allocated = heap_total_allocated
            /\ last_call'.ret.heap_total_freed = heap_total_freed
            /\ last_call'.ret.alloc_count = alloc_count
            /\ last_call'.ret.free_count = free_count
            /\ last_call'.ret.max_stack_usage = max_stack_usage
            /\ last_call'.ret.collision_warning = collision_warning
        /\ last_call'.op = "get_stats_null" =>
            UNCHANGED <<monitor, machine, inited, context>> ]_vars

\* The statistics have been read while the stored peak was out of date and
\* the ledger held a block.
C27_Witness ==
    /\ last_call.op = "get_stats"
    /\ heap_used > 0
    /\ max_stack_usage # UpdatedMax(scan_stack_usage)
    /\ last_call.ret.max_stack_usage = max_stack_usage

----------------------------------------------------------------------------
(* Termination of the loops                                                *)

\* C28: track_alloc and track_free return after at most
\* MAX_HEAP_ALLOCATIONS slot comparisons, and the scan of mem_monitor_update
\* stops after at most RAMEND - heap end steps, also when every byte from
\* the heap end upwards holds the sentinel.
C28_BoundedLoops ==
    [][ /\ (last_call'.op = "track_alloc" /\ last_call'.ptr # NULL) =>
               FreeSlotComparisons(s_alloc_table, 1) <= MAX_HEAP_ALLOCATIONS
        /\ (last_call'.op = "track_free" /\ last_call'.ptr # NULL) =>
               ActiveSlotComparisons(s_alloc_table, last_call'.ptr, 1)
                   <= MAX_HEAP_ALLOCATIONS
        /\ last_call'.op = "update" =>
               /\ ScanSteps(mem, HeapEnd) >= 0
               /\ ScanSteps(mem, HeapEnd) <= RAMEND - HeapEnd ]_vars

\* The scan has run over sentinel bytes all the way to RAMEND while the table
\* was full, where both slot loops run to the end of the table.
C28_Witness ==
    /\ last_call.op = "update"
    /\ \A a \in HeapEnd..RAMEND : mem[a] = STACK_SENTINEL
    /\ ScanSteps(mem, HeapEnd) = RAMEND - HeapEnd
    /\ TableFull
    /\ FreeSlotComparisons(s_alloc_table, 1) = MAX_HEAP_ALLOCATIONS
    /\ ActiveSlotComparisons(s_alloc_table, 536, 1) = MAX_HEAP_ALLOCATIONS

----------------------------------------------------------------------------
(* The two instantaneous readings                                          *)

\* C29: the current stack usage reported is RAMEND - SP whatever the bytes
\* between heap and stack hold, and the free stack space reported is
\* SP - heap end when SP is above the heap end and 0 otherwise.
C29_InstantReadings ==
    last_call.op = "get_stats" =>
        /\ last_call.ret.current_stack_usage = RAMEND - SP
        /\ last_call.ret.free_ram = IF SP > HeapEnd THEN SP - HeapEnd ELSE 0

\* The readings have been taken with the stack pointer below the heap end,
\* where the sentinel scan gives another depth than the stack pointer.
C29_Witness ==
    /\ last_call.op = "get_stats"
    /\ SP < HeapEnd
    /\ last_call.ret.free_ram = 0
    /\ last_call.ret.current_stack_usage # scan_stack_usage

----------------------------------------------------------------------------
(* Capacity of the ledger                                                  *)

\* C30: the number of slots whose active flag is set never exceeds the
\* capacity the table was declared with.
C30_ActiveWithinCapacity ==
    /\ Len(s_alloc_table) = ModelSlots
    /\ Cardinality({i \in DOMAIN s_alloc_table :
                        s_alloc_table[i].active # 0}) <= ModelSlots

\* The table has filled, lost a record, and every slot is active again after
\* the allocation that took the freed slot.
C30_Witness ==
    /\ last_call.op = "track_alloc"
    /\ last_call.ptr # NULL
    /\ Cardinality(ActiveSlots) = ModelSlots
    /\ free_count = 1
    /\ alloc_count = MaxAllocs

----------------------------------------------------------------------------
(* Reading the stack pointer under interrupts                              *)

\* C21: mem_monitor_get_stack_pointer returns with the global interrupt
\* enable bit as it was when the call was made: clear if it was clear, set
\* if it was set.
C21_InterruptStateRestored ==
    [][gsp.pc = "restore" /\ gsp'.pc = "idle" => SREG' = gsp.entry]_vars

\* The call has returned with interrupts off, as they were when it was made
\* below main's own frame.
C21_Witness ==
    /\ last_call.op = "get_stack_pointer"
    /\ SREG = 0
    /\ in_isr = 0
    /\ Len(frames) > 1

\* C22: no interrupt handler runs between the read of SPL and the read of
\* SPH, and the value returned is the stack pointer of that instant.
C22_AtomicRead ==
    [][ /\ gsp.pc = "sph" => (in_isr' = 0 /\ SP' = SP)
        /\ gsp'.pc = "sph" => in_isr' = 0
        /\ (gsp.pc = "restore" /\ gsp'.pc = "idle") =>
               last_call'.ret = SP ]_vars

\* The call has returned with interrupts enabled, below the bytes a handler
\* left on the stack.
C22_Witness ==
    /\ last_call.op = "get_stack_pointer"
    /\ last_call.ret = SP
    /\ SREG = SREG_I
    /\ mem[SP] = STACK_SENTINEL
    /\ mem[SP - 8] = 31

----------------------------------------------------------------------------
(* The wrappers and the real allocator                                     *)

\* C23: under the wrappers, at every point, between the two steps of
\* __wrap_malloc and of __wrap_free included, the address in every active
\* slot is a block the real allocator has allocated at that point.
C23_TrackedIsAllocated ==
    \A i \in Slots :
        s_alloc_table[i].active # 0 => s_alloc_table[i].ptr \in allocated

\* __wrap_free has told the ledger and not yet released the block, while
\* other blocks are tracked.
C23_Witness ==
    /\ wrap.pc = "f_real"
    /\ wrap.ptr \in allocated
    /\ ~Tracked(wrap.ptr)
    /\ free_count > 0
    /\ ActiveSlots # {}

\* C24: __wrap_malloc has called the real allocator exactly once, with the
\* size it was given, and returns what the allocator returned, also when the
\* ledger is full or the result is null; __wrap_free has called the real
\* deallocator exactly once, with the pointer it was given, also when the
\* pointer is untracked or null.
C24_WrappersForward ==
    /\ last_call.op = "wrap_malloc" =>
           /\ wrap.real_calls = 1
           /\ wrap.real_arg = last_call.size
           /\ last_call.ret = wrap.real_ret
    /\ last_call.op = "wrap_free" =>
           /\ wrap.real_calls = 1
           /\ wrap.real_arg = last_call.ptr

\* __wrap_malloc has returned a block that the full ledger could not record.
C24_Witness ==
    /\ last_call.op = "wrap_malloc"
    /\ last_call.ret # NULL
    /\ last_call.ret \in allocated
    /\ ~Tracked(last_call.ret)
    /\ TableFull

----------------------------------------------------------------------------
(* The ledger under calls from interrupt context                           *)

\* C25 as stated: with track_alloc and track_free also called from handlers
\* in the middle of a main-line track_alloc or track_free, once the calls
\* have returned heap_used is the sum of the sizes of the active slots and
\* no record and no counter update is lost: every allocation counted and not
\* freed has its slot.
C25_CriticalSection ==
    (track.pc = "idle" /\ in_isr = 0) =>
        /\ heap_used = ActiveBytes % U16
        /\ Cardinality(ActiveSlots) = (alloc_count - free_count) % U16

----------------------------------------------------------------------------
(* Regions that have met                                                   *)

\* C32 as stated: with the stack pointer at or below the heap end,
\* mem_monitor_check_collision returns 1 and sets collision_warning.
C32_MetRegionsWarn ==
    (last_call.op = "check_collision" /\ SP <= HeapEnd) =>
        /\ last_call.ret = 1
        /\ collision_warning = 1

----------------------------------------------------------------------------
(* The cumulative counters                                                 *)

\* The step adds to a counter without carrying out of 16 bits.
NoWrapInStep ==
    /\ AcceptedAlloc => /\ heap_total_allocated + last_call'.size < U16
                        /\ alloc_count + 1 < U16
    /\ TrackedFree =>
           /\ heap_total_freed
                  + s_alloc_table[LowestMatch(last_call'.ptr)].size < U16
           /\ free_count + 1 < U16

\* C36: between two calls of init, while no counter wraps, alloc_count,
\* free_count, heap_total_allocated and heap_total_freed never decrease, and
\* in every state free_count <= alloc_count and
\* heap_total_freed <= heap_total_allocated.  The allocations of this
\* specification are too few and too small for a counter to reach 2^16.
C36_CountersMonotone ==
    [][ /\ (last_call'.op # "init" /\ NoWrapInStep) =>
               /\ alloc_count' >= alloc_count
               /\ free_count' >= free_count
               /\ heap_total_allocated' >= heap_total_allocated
               /\ heap_total_freed' >= heap_total_freed
        /\ free_count <= alloc_count
        /\ heap_total_freed <= heap_total_allocated
        /\ free_count' <= alloc_count'
        /\ heap_total_freed' <= heap_total_allocated' ]_vars

\* Every block counted has been freed, and a further free of the same
\* address has found nothing to count.
C36_Witness ==
    /\ last_call.op = "track_free"
    /\ last_call.ptr # NULL
    /\ ~Tracked(last_call.ptr)
    /\ free_count = alloc_count
    /\ alloc_count >= 2
    /\ heap_total_freed = heap_total_allocated
    /\ \E i \in Slots : s_alloc_table[i].ptr = last_call.ptr

----------------------------------------------------------------------------
(* What update and the ledger calls leave alone                            *)

----------------------------------------------------------------------------
(* The peak against the depth in use                                       *)

\* No byte of the stack, from the byte above the stack pointer to RAMEND,
\* holds the sentinel value.
StackBytesVisible == \A a \in (SP + 1)..RAMEND : mem[a] # STACK_SENTINEL

\* C34 as stated: right after mem_monitor_update, with no sentinel value in
\* any byte the stack occupies, max_stack_usage is at least RAMEND minus the
\* stack pointer of the scan.
C34_PeakAtLeastCurrent ==
    (last_call.op = "update" /\ StackBytesVisible) =>
        max_stack_usage >= RAMEND - SP

----------------------------------------------------------------------------
(* The peak against the true depth                                         *)

\* The deepest the stack has been since init: down to the lowest address it
\* has written since, or the bytes in use when init ran.
TrueMaxDepth ==
    LET written == RAMEND - stack_low
        at_init == RAMEND - init_stack_pointer
    IN  IF written > at_init THEN written ELSE at_init

\* C33: after any sequence of init, update, heap growth and calls and
\* returns, with handlers pushing and popping frames while a scan is under
\* way, max_stack_usage is at most the true maximum depth of the stack.
C33_NeverOverReports == inited => max_stack_usage <= TrueMaxDepth

\* An update has returned whose scan was overtaken by a handler: the handler
\* wrote below the byte the scan stopped at after the scan had passed it.
C33_Witness ==
    /\ last_call.op = "update"
    /\ max_stack_usage < RAMEND - stack_low
    /\ mem[stack_low] # STACK_SENTINEL
    /\ stack_low >= HeapEnd
    /\ max_stack_usage > 0

----------------------------------------------------------------------------
(* One record per block                                                    *)

\* C37: with every track_alloc and track_free made by the wrappers, around
\* an allocator that never returns an address still allocated, no two active
\* slots hold the same address, and the track_free of __wrap_free leaves no
\* active record of the block being freed.
C37_UniqueRecords ==
    /\ \A i, j \in Slots :
           ( /\ s_alloc_table[i].active # 0
             /\ s_alloc_table[j].active # 0
             /\ s_alloc_table[i].ptr = s_alloc_table[j].ptr ) => i = j
    /\ wrap.pc = "f_real" => ~Tracked(wrap.ptr)

\* A block is being freed whose address the table holds in two slots, both
\* inactive now: the address had been handed out again after an earlier
\* free.
C37_Witness ==
    /\ wrap.pc = "f_real"
    /\ wrap.ptr # NULL
    /\ free_count >= 2
    /\ \E i, j \in Slots : /\ i # j
                           /\ s_alloc_table[i].ptr = wrap.ptr
                           /\ s_alloc_table[j].ptr = wrap.ptr

----------------------------------------------------------------------------
(* Printing a 16-bit value                                                 *)

\* The number a sequence of decimal digit characters denotes, most
\* significant digit first.
RECURSIVE DigitsValue(_)
DigitsValue(s) ==
    IF s = <<>> THEN 0
    ELSE DigitsValue(SubSeq(s, 1, Len(s) - 1)) * 10 + (s[Len(s)] - ASCII_0)

\* s is the decimal numeral of v: digits only, at most 5 of them, no leading
\* zero except the numeral "0" itself, and v is the number they denote.
IsDecimalOf(s, v) ==
    /\ Len(s) \in 1..5
    /\ \A i \in 1..Len(s) : s[i] \in ASCII_0..(ASCII_0 + 9)
    /\ Len(s) > 1 => s[1] # ASCII_0
    /\ DigitsValue(s) = v

\* C38: uart_print_u16 sends exactly the decimal digits of its argument,
\* most significant first and without leading zeros, the one character '0'
\* for 0 and at most 5 characters, and it finishes provided the transmitter
\* accepts each byte.
C38_PrintsDecimal ==
    /\ [](uart.pc = "done" => IsDecimalOf(uart.out, uart.arg))
    /\ (uart.pc \in {"convert", "putc"}) ~> (uart.pc = "done")

\* The largest 16-bit value has been sent, five characters, the transmitter
\* still busy with the last.
C38_Witness ==
    /\ uart.pc = "done"
    /\ uart.arg = U16 - 1
    /\ Len(uart.out) = 5
    /\ uart.udre = 0

----------------------------------------------------------------------------
(* Round trip of track_alloc and track_free                                *)

\* The active records of a table but for the slots in skip, as a multiset of
\* <<address, size>> pairs: how many slots hold each pair.
RecordsOf(tbl, skip) ==
    LET S == {i \in Slots : tbl[i].active # 0} \ skip
        pairOf(i) == <<tbl[i].ptr, tbl[i].size>>
    IN  [r \in {pairOf(i) : i \in S} |-> Cardinality({i \in S : pairOf(i) = r})]

\* What the round trip is about: heap_used and the active records.
LedgerView(tbl, used) == [used |-> used, records |-> RecordsOf(tbl, {})]

\* The same without the record of slot i: its bytes taken off heap_used in
\* the code's 16-bit arithmetic, its record left out.
LedgerWithout(tbl, used, i) ==
    [used |-> (used - tbl[i].size) % U16, records |-> RecordsOf(tbl, {i})]

\* The active slots that hold ptr.
SlotsHolding(ptr) ==
    {i \in ActiveSlots : s_alloc_table[i].ptr = ptr}

\* A tracked allocation adds exactly its record and its bytes: without the
\* slot it took, the ledger after the call is the ledger before it.
AllocAddsRecord ==
    AcceptedAlloc =>
        LedgerWithout(s_alloc_table', heap_used', LowestInactive)
            = LedgerView(s_alloc_table, heap_used)

\* No slot active means no byte in use and as many frees as allocations.
AllFreedIsEmpty ==
    ActiveSlots = {} => heap_used = 0 /\ alloc_count = free_count

\* C31 as stated: track_free of an address gives the ledger without the
\* allocation of that address, whichever active record the allocation wrote,
\* and with every tracked allocation freed heap_used is 0, no slot is active
\* and alloc_count equals free_count.
C31_RoundTripAnyRecord ==
    /\ [][ /\ AllocAddsRecord
           /\ TrackedFree =>
                 \A i \in SlotsHolding(last_call'.ptr) :
                    LedgerView(s_alloc_table', heap_used')
                        = LedgerWithout(s_alloc_table, heap_used, i) ]_vars
    /\ []AllFreedIsEmpty

\* C31, amended: a tracked allocation adds its record and its bytes, and a
\* track_free of an address that active records hold gives the ledger without
\* the record of the lowest such slot, so it undoes the allocation of the
\* address whenever one active record holds it; with no slot active
\* heap_used is 0 and alloc_count equals free_count.
C31_RoundTripLowestRecord ==
    /\ [][ /\ AllocAddsRecord
           /\ TrackedFree =>
                 LedgerView(s_alloc_table', heap_used')
                     = LedgerWithout(s_alloc_table, heap_used,
                                     LowestMatch(last_call'.ptr)) ]_vars
    /\ []AllFreedIsEmpty

\* Two blocks of 32768 bytes were tracked, which wrapped heap_used to 0, and
\* both have been freed: the table is empty again and heap_used is 0.
C31_Witness ==
    /\ last_call.op = "track_free"
    /\ ActiveSlots = {}
    /\ alloc_count = 2
    /\ free_count = 2
    /\ heap_total_allocated = 0
    /\ heap_total_freed = 0
    /\ heap_used = 0

====
